---- MODULE Spec2Model ----
(***************************************************************************)
(* EFI Firmware Volume parser/serializer of pkg/efi/volume.go:             *)
(* ReadVolume (header, block map, data region, file records, trailing      *)
(* blob) and Volume.Serialize (file alignment, block map synthesis,        *)
(* header checksum, concatenation), at byte level.                         *)
(*                                                                         *)
(* Bytes are 0..255.  uint16/uint24 values are integers.  uint32 and       *)
(* uint64 values are kept as their little-endian byte limbs (4 or 8        *)
(* bytes), with 32-bit multiplication and subtraction done on the limbs,   *)
(* so that wrap-around is computed exactly.                                *)
(***************************************************************************)
EXTENDS Integers, Sequences, FiniteSets, TLC

(***************************************************************************)
(* Byte sequences and little-endian integers (encoding/binary).            *)
(***************************************************************************)
Repeat(b, n) == [i \in 1..n |-> b]

RECURSIVE LE(_, _)
LE(n, w) == IF w = 0 THEN <<>> ELSE <<n % 256>> \o LE(n \div 256, w - 1)

U16(s) == s[1] + 256 * s[2]

U24(s) == s[1] + 256 * s[2] + 65536 * s[3]

RECURSIVE Concat(_)
Concat(ss) == IF ss = <<>> THEN <<>> ELSE Head(ss) \o Concat(Tail(ss))

Min(a, b) == IF a < b THEN a ELSE b

None == <<>>

Some(x) == <<x>>

(***************************************************************************)
(* uint32 arithmetic on little-endian byte limbs.                          *)
(***************************************************************************)
ToU32(n) == LE(n, 4)

Zero32 == ToU32(0)

\* a * b mod 2^32 (schoolbook multiplication, columns 0..3)
Mul32(a, b) ==
    LET s0 == a[1] * b[1]
        s1 == a[1] * b[2] + a[2] * b[1] + (s0 \div 256)
        s2 == a[1] * b[3] + a[2] * b[2] + a[3] * b[1] + (s1 \div 256)
        s3 == a[1] * b[4] + a[2] * b[3] + a[3] * b[2] + a[4] * b[1] + (s2 \div 256)
    IN  <<s0 % 256, s1 % 256, s2 % 256, s3 % 256>>

\* a - b mod 2^32 (borrow chain)
Sub32(a, b) ==
    LET d1 == a[1] - b[1]
        d2 == a[2] - b[2] - (IF d1 < 0 THEN 1 ELSE 0)
        d3 == a[3] - b[3] - (IF d2 < 0 THEN 1 ELSE 0)
        d4 == a[4] - b[4] - (IF d3 < 0 THEN 1 ELSE 0)
    IN  <<d1 % 256, d2 % 256, d3 % 256, d4 % 256>>

\* a <= b as unsigned 32-bit values
Le32(a, b) ==
    \/ a = b
    \/ \E i \in 1..4 : a[i] < b[i] /\ \A j \in (i + 1)..4 : a[j] = b[j]

\* the limbs of a value below 2^24 as an integer
Int32(a) == a[1] + 256 * a[2] + 65536 * a[3]

FitsInt(a) == a[4] = 0

(***************************************************************************)
(* FirmwareVolumeHeader and its little-endian wire form (0x38 bytes).      *)
(* Length and AttributeMask are kept as limbs; the other integers as       *)
(* integers.                                                               *)
(***************************************************************************)
HeaderSize == 56

BlockmapEntrySize == 8

FirmwareVolumeHeader(b) ==
    [Reserved        |-> SubSeq(b, 1, 16),
     GUID            |-> SubSeq(b, 17, 32),
     Length          |-> SubSeq(b, 33, 40),
     Signature       |-> SubSeq(b, 41, 44),
     AttributeMask   |-> SubSeq(b, 45, 48),
     HeaderLength    |-> U16(SubSeq(b, 49, 50)),
     Checksum        |-> U16(SubSeq(b, 51, 52)),
     ExtHeaderOffset |-> U16(SubSeq(b, 53, 54)),
     Reserved2       |-> b[55],
     Revision        |-> b[56]]

WriteHeader(h) ==
    h.Reserved \o h.GUID \o h.Length \o h.Signature \o h.AttributeMask
      \o LE(h.HeaderLength, 2) \o LE(h.Checksum, 2) \o LE(h.ExtHeaderOffset, 2)
      \o <<h.Reserved2, h.Revision>>

\* blockmap{BlockCount, BlockSize uint32}
blockmap(b) == [BlockCount |-> SubSeq(b, 1, 4), BlockSize |-> SubSeq(b, 5, 8)]

WriteBlockmap(bmap) ==
    Concat([i \in 1..Len(bmap) |-> bmap[i].BlockCount \o bmap[i].BlockSize])

\* GUID.String(): the five printed groups, the first three byte-swapped
\* (EFI mixed-endian GUID), as sequences of bytes in printing order.
Reverse(s) == [i \in 1..Len(s) |-> s[Len(s) + 1 - i]]

GUIDString(g) ==
    <<Reverse(SubSeq(g, 1, 4)), Reverse(SubSeq(g, 5, 6)), Reverse(SubSeq(g, 7, 8)),
      SubSeq(g, 9, 10), SubSeq(g, 11, 16)>>

\* "7a9354d9-0468-444a-81ce-0bf617d890df"
VolumeGUIDString ==
    <<<<122, 147, 84, 217>>, <<4, 104>>, <<68, 74>>, <<129, 206>>,
      <<11, 246, 23, 216, 144, 223>>>>

\* "_FVH"
SignatureFVH == <<95, 70, 86, 72>>

\* FirmwareVolumeHeader.check(): the message of the error, or None
MinHeaderLength == 56 + 8

\* check() with the fixed header's size as the bound on HeaderLength
checkFixedPartOnly(h) ==
    IF GUIDString(h.GUID) # VolumeGUIDString THEN Some("unknown GUID")
    ELSE IF h.Signature # SignatureFVH THEN Some("invalid signature")
    ELSE IF h.HeaderLength < 56 THEN Some("header length too small")
    ELSE None

check(h) ==
    IF GUIDString(h.GUID) # VolumeGUIDString THEN Some("unknown GUID")
    ELSE IF h.Signature # SignatureFVH THEN Some("invalid signature")
    ELSE IF h.HeaderLength < MinHeaderLength THEN Some("header length too small")
    ELSE None

\* checksum16: two's complement of the sum of the little-endian 16-bit words
RECURSIVE Sum16(_)
Sum16(b) ==
    IF Len(b) < 2 THEN 0
    ELSE (U16(b) + Sum16(SubSeq(b, 3, Len(b)))) % 65536

checksum16(b) == (65536 - Sum16(b)) % 65536

(***************************************************************************)
(* Errors: a message, the record index it names (-1: none) and the         *)
(* message of the wrapped cause ("": none).                                *)
(***************************************************************************)
Errorf(msg, index, cause) == [msg |-> msg, index |-> index, cause |-> cause]

\* the error taxonomy of the design (spec section 7)
ErrorClass(e) ==
    CASE e.msg = "reading volume header failed" -> "MalformedHeader"
      [] e.msg = "volume header invalid" /\ e.cause \in {"unknown GUID", "invalid signature"}
           -> "UnsupportedFormat"
      [] e.msg = "volume header invalid" -> "MalformedHeader"
      [] e.msg \in {"blockmap size not a multiple of 8",
                    "blockmap does not end in (0, 0)",
                    "unsupported count of blockmaps"} -> "MalformedBlockMap"
      [] e.msg = "reading file failed" -> "MalformedFile"
      [] e.msg = "file" -> "MalformedFile"
      [] OTHER -> "Other"

(***************************************************************************)
(* NestedReader: a bounded cursor (buffer, position, end) over a byte      *)
(* buffer.  A view carved with a length that reaches past the buffer has   *)
(* end = Beyond: its bytes end with the buffer, its Len() is not zero.     *)
(* A position advanced past the buffer is Beyond as well.                  *)
(***************************************************************************)
Beyond == -1

NewNestedReader(buf) == [buf |-> buf, pos |-> 0, end |-> Len(buf)]

\* the number of bytes a read can still get
Backed(r) ==
    IF r.pos = Beyond THEN 0
    ELSE LET e == IF r.end = Beyond THEN Len(r.buf) ELSE Min(r.end, Len(r.buf))
         IN  IF e > r.pos THEN e - r.pos ELSE 0

\* NestedReader.Len() = 0
Exhausted(r) == r.end # Beyond /\ r.pos # Beyond /\ r.end - r.pos = 0

\* binary.Read / io.ReadFull of n bytes: fails when fewer are left
CanRead(r, n) == Backed(r) >= n

Peek(r, n) == SubSeq(r.buf, r.pos + 1, r.pos + n)

\* position + n, n an unsigned 32-bit value in limbs
AddPos(r, n) ==
    IF r.pos = Beyond THEN Beyond
    ELSE IF FitsInt(n) /\ r.pos + Int32(n) <= Len(r.buf) THEN r.pos + Int32(n)
    ELSE Beyond

\* NestedReader.Sub(0, n)
Sub(r, n) == [buf |-> r.buf, pos |-> r.pos, end |-> AddPos(r, n)]

\* NestedReader.Advance(n)
Advance(r, n) == [r EXCEPT !.pos = AddPos(r, n)]

\* io.ReadAll
ReadAll(r) == IF Backed(r) = 0 THEN <<>> ELSE Peek(r, Backed(r))

(***************************************************************************)
(* FirmwareFile: the file-record codec the volume code calls (readFile,    *)
(* FirmwareFile.Serialize).  A record is a 24-byte FirmwareFileHeader      *)
(* (GUID, ChecksumHeader, ChecksumData, FileType, Attributes, 24-bit Size, *)
(* State) followed by Size - 24 bytes of sections, kept as raw bytes.      *)
(* serializable = FALSE marks a record whose section tree cannot be        *)
(* serialized (only an edit can produce one).                              *)
(***************************************************************************)
FileHeaderSize == 24

FileTypePadding == 240

FirmwareFileHeader(b) ==
    [GUID           |-> SubSeq(b, 1, 16),
     ChecksumHeader |-> b[17],
     ChecksumData   |-> b[18],
     FileType       |-> b[19],
     Attributes     |-> b[20],
     Size           |-> U24(SubSeq(b, 21, 23)),
     State          |-> b[24]]

FirmwareFile(h, data) ==
    [GUID           |-> h.GUID,
     ChecksumHeader |-> h.ChecksumHeader,
     ChecksumData   |-> h.ChecksumData,
     FileType       |-> h.FileType,
     Attributes     |-> h.Attributes,
     Size           |-> h.Size,
     State          |-> h.State,
     data           |-> data,
     serializable   |-> TRUE]

\* bytes up to the next multiple of 8
AlignGap(n) == (8 - (n % 8)) % 8

\* readFile(r): [err, file, r]; the record's bytes and its alignment gap
\* (as far as the view holds it) are consumed
readFile(r) ==
    IF ~CanRead(r, FileHeaderSize)
    THEN [err |-> Some("unexpected EOF"), file |-> None, r |-> r]
    ELSE LET h  == FirmwareFileHeader(Peek(r, FileHeaderSize))
             r1 == [r EXCEPT !.pos = r.pos + FileHeaderSize]
             n  == h.Size - FileHeaderSize
         IN  IF n < 0 THEN [err |-> Some("invalid file size"), file |-> None, r |-> r1]
             ELSE IF ~CanRead(r1, n)
             THEN [err |-> Some("unexpected EOF"), file |-> None, r |-> r1]
             ELSE LET r2 == [r1 EXCEPT !.pos = r1.pos + n]
                      r3 == [r2 EXCEPT !.pos = r2.pos + Min(AlignGap(h.Size), Backed(r2))]
                  IN  [err  |-> None,
                       file |-> Some(FirmwareFile(h, IF n = 0 THEN <<>> ELSE Peek(r1, n))),
                       r    |-> r3]

\* FirmwareFile.Serialize(): [err, data]; Size is recomputed
FileSerialize(f) ==
    IF ~f.serializable
    THEN [err |-> Some("section serialize failed"), data |-> <<>>]
    ELSE [err  |-> None,
          data |-> f.GUID \o <<f.ChecksumHeader, f.ChecksumData, f.FileType, f.Attributes>>
                     \o LE(FileHeaderSize + Len(f.data), 3) \o <<f.State>> \o f.data]

(***************************************************************************)
(* ReadVolume, line by line.                                               *)
(***************************************************************************)
\* lines 69-73: blockmapSize := header.HeaderLength - 0x38 (uint16)
blockmapSize(h) == (h.HeaderLength - 56) % 65536

bmapCount(h) == blockmapSize(h) \div 8

\* lines 82-89: the message of the block map's error, or None
checkBlockmap(bmap) ==
    LET last == bmap[Len(bmap)]
    IN  IF last.BlockCount # Zero32 \/ last.BlockSize # Zero32
        THEN Some("blockmap does not end in (0, 0)")
        ELSE IF Len(bmap) # 2 THEN Some("unsupported count of blockmaps")
        ELSE None

\* lines 93-96: dataSize := bmap[0].BlockCount * bmap[0].BlockSize; dataSize -= 0x28 + 0x20
DataSize(bmap) == Sub32(Mul32(bmap[1].BlockCount, bmap[1].BlockSize), ToU32(40 + 32))

\* the loop running only while a file header is left to read
filesLoopWhileHeader(dataSub) == CanRead(dataSub, FileHeaderSize)

\* line 114: for dataSub.Len() != 0
filesLoop(dataSub) == ~Exhausted(dataSub)

\* lines 123-127
Volume(h, files, custom) == [FirmwareVolumeHeader |-> h, Files |-> files, Custom |-> custom]

(***************************************************************************)
(* Volume.Serialize.                                                       *)
(***************************************************************************)
\* lines 132-140
havePadding(files) == \E i \in 1..Len(files) : files[i].FileType = FileTypePadding

\* alignment with zero bytes
AlignDataZero(data) ==
    IF Len(data) % 8 # 0 THEN data \o Repeat(0, 8 - (Len(data) % 8)) ELSE data

\* lines 175-178: align a file's bytes to 8 with 0xff
AlignData(data) ==
    IF Len(data) % 8 # 0 THEN data \o Repeat(255, 8 - (Len(data) % 8)) ELSE data

\* lines 160-181: fileData of the files from index i (0-based) on, after acc
RECURSIVE serializeFiles(_, _, _)
serializeFiles(files, i, acc) ==
    IF i = Len(files) THEN [err |-> None, fileData |-> acc]
    ELSE LET s == FileSerialize(files[i + 1])
         IN  IF s.err # None
             THEN [err |-> Some(Errorf("file", i, s.err[1])), fileData |-> <<>>]
             ELSE serializeFiles(files, i + 1, Append(acc, AlignData(s.data)))

RECURSIVE SumLen(_)
SumLen(ss) == IF ss = <<>> THEN 0 ELSE Len(Head(ss)) + SumLen(Tail(ss))

\* lines 183-188
MakeBlockmap(filesSize) ==
    LET totalSize == filesSize + 56 + 16
        nblocks   == ToU32(totalSize \div 256)
    IN  <<[BlockCount |-> nblocks, BlockSize |-> ToU32(256)],
          [BlockCount |-> Zero32, BlockSize |-> Zero32]>>

\* lines 191-194
paddingNeeded(filesSize) == IF filesSize % 256 # 0 THEN 256 - (filesSize % 256) ELSE 0

\* uint64 addition on limbs, mod 2^64
RECURSIVE AddLimbs(_, _, _)
AddLimbs(a, b, carry) ==
    IF a = <<>> THEN <<>>
    ELSE <<(Head(a) + Head(b) + carry) % 256>>
           \o AddLimbs(Tail(a), Tail(b), (Head(a) + Head(b) + carry) \div 256)

Add64(a, b) == AddLimbs(a, b, 0)

Zero64 == LE(0, 8)

\* Length accumulated without the reset of line 207
UpdateHeaderNoReset(h, filesSize, nbmap) ==
    [h EXCEPT !.Length = Add64(h.Length, LE(filesSize + paddingNeeded(filesSize), 8)),
              !.HeaderLength = (56 + 8 * nbmap) % 65536,
              !.ExtHeaderOffset = 0]

\* lines 207-213
UpdateHeader(h, filesSize, nbmap) ==
    [h EXCEPT !.Length = Add64(Zero64, LE(filesSize + paddingNeeded(filesSize), 8)),
              !.HeaderLength = (56 + 8 * nbmap) % 65536,
              !.ExtHeaderOffset = 0]

\* the checksum taken without the reset of line 216
SetChecksumNoReset(h, bmap) ==
    [h EXCEPT !.Checksum = checksum16(WriteHeader(h) \o WriteBlockmap(bmap))]

\* lines 216-220
SetChecksum(h, bmap) ==
    LET h0 == [h EXCEPT !.Checksum = 0]
    IN  [h0 EXCEPT !.Checksum = checksum16(WriteHeader(h0) \o WriteBlockmap(bmap))]

\* lines 222-251 (fileData holds every index, so the re-serializing branch
\* of lines 236-247 is never taken)
Emit(v, bmap, fileData) ==
    WriteHeader(v.FirmwareVolumeHeader) \o WriteBlockmap(bmap) \o Concat(fileData) \o v.Custom

\* Volume.Serialize(): the way it ends ("return" or "panic"), the bytes and
\* the error returned, and the Volume as the call leaves it
Serialize(v) ==
    IF ~havePadding(v.Files)
    THEN [end |-> "panic", out |-> None, err |-> None, v |-> v]
    ELSE LET fs == serializeFiles(v.Files, 0, <<>>)
         IN  IF fs.err # None
             THEN [end |-> "return", out |-> None, err |-> fs.err, v |-> v]
             ELSE LET filesSize == SumLen(fs.fileData)
                      bmap      == MakeBlockmap(filesSize)
                      h         == SetChecksum(UpdateHeader(v.FirmwareVolumeHeader,
                                                            filesSize, Len(bmap)), bmap)
                      v1        == [v EXCEPT !.FirmwareVolumeHeader = h]
                  IN  [end |-> "return", out |-> Some(Emit(v1, bmap, fs.fileData)),
                       err |-> None, v |-> v1]

(***************************************************************************)
(* Input images and the records an edit can add.                           *)
(***************************************************************************)
MaxFiles == 2

MaxStray == 1

MaxEdits == 1

MaxCalls == 2

MaxRounds == 1

\* 7a9354d9-0468-444a-81ce-0bf617d890df as stored
VolumeGUID == <<217, 84, 147, 122, 104, 4, 74, 68, 129, 206, 11, 246, 23, 216, 144, 223>>

OtherGUID == <<120, 229, 140, 140, 61, 138, 28, 79, 153, 53, 137, 97, 133, 195, 45, 211>>

Pad(n) ==
    [GUID |-> Repeat(255, 16), ChecksumHeader |-> 0, ChecksumData |-> 0,
     FileType |-> FileTypePadding, Attributes |-> 64, Size |-> FileHeaderSize + n,
     State |-> 248, data |-> Repeat(255, n), serializable |-> TRUE]

Raw(n) ==
    [GUID |-> [i \in 1..16 |-> i], ChecksumHeader |-> 170, ChecksumData |-> 85,
     FileType |-> 2, Attributes |-> 0, Size |-> FileHeaderSize + n,
     State |-> 248, data |-> [i \in 1..n |-> 16 + i], serializable |-> TRUE]

Unserializable == [Raw(4) EXCEPT !.serializable = FALSE]

ImageFiles == {Pad(160), Pad(0), Raw(5)}

ExtraFiles == {Pad(0), Unserializable}

FileLists == UNION {[1..n -> ImageFiles] : n \in 0..MaxFiles}

Customs == {<<>>, <<197, 92, 1>>}

\* the Custom blob of an image and the Checksum field of its header
Trailers == {<<<<>>, 0>>, <<<<197, 92, 1>>, 4660>>}

SampleHeader(guid, sig, hl, cks) ==
    [Reserved |-> Repeat(0, 16), GUID |-> guid, Length |-> LE(4096, 8),
     Signature |-> sig, AttributeMask |-> <<255, 142, 255, 255>>,
     HeaderLength |-> hl, Checksum |-> cks, ExtHeaderOffset |-> 96,
     Reserved2 |-> 0, Revision |-> 1]

Entry(count, size) == [BlockCount |-> ToU32(count), BlockSize |-> ToU32(size)]

\* the bytes of the records of an image, each aligned to 8
OnDisk(files) ==
    Concat([i \in 1..Len(files) |-> AlignData(FileSerialize(files[i]).data)])

\* block maps for a data region of n bytes: exact, in two blocks, with the
\* vendor correction missing, empty (0 blocks), and far too large
Geometries(n) ==
    {Entry(1, n + 72), Entry(2, (n + 72) \div 2), Entry(1, n), Entry(0, 256), Entry(100, 256)}

\* images with a valid header and a two-entry block map
VolumeImages ==
    UNION { { WriteHeader(SampleHeader(VolumeGUID, SignatureFVH, 72, t[2]))
                \o WriteBlockmap(<<g, Entry(0, 0)>>) \o OnDisk(fl) \o Repeat(90, k) \o t[1] :
              g \in Geometries(Len(OnDisk(fl)) + k) } :
            fl \in FileLists, k \in 0..MaxStray, t \in Trailers }

EntryLists ==
    LET G == Entry(1, 72)
        Z == Entry(0, 0)
    IN  {<<>>, <<Z>>, <<G>>, <<G, Z>>, <<G, G>>, <<G, G, Z>>, <<G, Z, G>>, <<G, Z, Z>>}

\* images with every kind of header and block map, some cut short
HeaderImages ==
    { WriteHeader(SampleHeader(guid, sig, hl, 0)) \o WriteBlockmap(el) \o tail :
        guid \in {VolumeGUID, OtherGUID},
        sig \in {SignatureFVH, <<95, 70, 86, 88>>},
        hl \in {48, 63, 64, 68, 72, 80},
        el \in EntryLists,
        tail \in {<<>>, <<1, 0, 0, 0>>} }

ShortImages == {<<>>, SubSeq(WriteHeader(SampleHeader(VolumeGUID, SignatureFVH, 72, 0)), 1, 55)}

Images == VolumeImages \cup HeaderImages \cup ShortImages

(***************************************************************************)
(* State: one caller that parses an image (ReadVolume, step by step),      *)
(* edits the Volume, serializes it and may parse the output again.         *)
(***************************************************************************)
VARIABLES
    pc,        \* where the caller is
    r,         \* the NestedReader given to ReadVolume
    header,    \* ReadVolume's header, once decoded
    bmap,      \* ReadVolume's bmap
    dataSize,  \* ReadVolume's dataSize, once derived
    dataSub,   \* ReadVolume's dataSub, once carved
    rest,      \* ReadVolume's rest
    files,     \* ReadVolume's files
    vol,       \* the Volume the caller holds
    err,       \* the error of the last call
    out,       \* the bytes of the last Serialize
    prev,      \* the Volume whose Serialize output is being parsed again
    edits,     \* edits made to the Volume
    calls,     \* Serialize calls on the Volume since it was parsed
    rounds     \* images parsed from Serialize output

vars == <<pc, r, header, bmap, dataSize, dataSub, rest, files, vol, err, out, prev,
          edits, calls, rounds>>

parse == <<r, header, bmap, dataSize, dataSub, rest, files>>

session == <<prev, edits, calls, rounds>>

Init ==
    /\ pc = "header"
    /\ \E img \in Images : r = NewNestedReader(img)
    /\ header = None
    /\ bmap = <<>>
    /\ dataSize = None
    /\ dataSub = None
    /\ rest = <<>>
    /\ files = <<>>
    /\ vol = None
    /\ err = None
    /\ out = None
    /\ prev = None
    /\ edits = 0
    /\ calls = 0
    /\ rounds = 0

\* return nil, err
Fail(e) ==
    /\ pc' = "returned"
    /\ err' = Some(e)
    /\ vol' = None

\* lines 60-67: read and check the header
ReadHeader ==
    /\ pc = "header"
    /\ IF ~CanRead(r, HeaderSize)
       THEN /\ Fail(Errorf("reading volume header failed", -1, "unexpected EOF"))
            /\ r' = [r EXCEPT !.pos = r.pos + Backed(r)]
            /\ header' = header
       ELSE LET h == FirmwareVolumeHeader(Peek(r, HeaderSize))
            IN  /\ r' = [r EXCEPT !.pos = r.pos + HeaderSize]
                /\ header' = Some(h)
                /\ IF check(h) # None
                   THEN Fail(Errorf("volume header invalid", -1, check(h)[1]))
                   ELSE pc' = "blockmap" /\ UNCHANGED <<err, vol>>
    /\ UNCHANGED <<bmap, dataSize, dataSub, rest, files, out, session>>

\* lines 69-73: the size of the block map
BlockmapSize ==
    /\ pc = "blockmap"
    /\ IF blockmapSize(header[1]) % 8 # 0
       THEN Fail(Errorf("blockmap size not a multiple of 8", -1, ""))
       ELSE pc' = "entries" /\ UNCHANGED <<err, vol>>
    /\ UNCHANGED <<parse, out, session>>

\* lines 75-81: one pass of the loop; glog.Exit ends the process
ReadEntry ==
    /\ pc = "entries"
    /\ Len(bmap) < bmapCount(header[1])
    /\ IF ~CanRead(r, BlockmapEntrySize)
       THEN pc' = "exited" /\ UNCHANGED <<r, bmap>>
       ELSE /\ bmap' = Append(bmap, blockmap(Peek(r, BlockmapEntrySize)))
            /\ r' = [r EXCEPT !.pos = r.pos + BlockmapEntrySize]
            /\ pc' = pc
    /\ UNCHANGED <<header, dataSize, dataSub, rest, files, vol, err, out, session>>

\* lines 82-89: after the loop; bmap[len(bmap)-1] of an empty bmap panics
CheckBlockmap ==
    /\ pc = "entries"
    /\ Len(bmap) >= bmapCount(header[1])
    /\ IF Len(bmap) = 0 THEN pc' = "panicked" /\ UNCHANGED <<err, vol>>
       ELSE IF checkBlockmap(bmap) # None
       THEN Fail(Errorf(checkBlockmap(bmap)[1], -1, ""))
       ELSE pc' = "data" /\ UNCHANGED <<err, vol>>
    /\ UNCHANGED <<parse, out, session>>

\* lines 93-111: derive the data size, carve the data region, read the rest
\* (int is 64 bits wide: int(dataSize) is the unsigned value)
CarveData ==
    /\ pc = "data"
    /\ dataSize' = Some(DataSize(bmap))
    /\ dataSub' = Some(Sub(r, DataSize(bmap)))
    /\ LET r1 == Advance(r, DataSize(bmap))
       IN  /\ rest' = ReadAll(r1)
           /\ r' = IF r1.pos = Beyond THEN r1 ELSE [r1 EXCEPT !.pos = r1.pos + Backed(r1)]
    /\ pc' = "files"
    /\ UNCHANGED <<header, bmap, files, vol, err, out, session>>

\* lines 114-120: one pass of the loop
ReadFile ==
    /\ pc = "files"
    /\ filesLoop(dataSub[1])
    /\ LET f == readFile(dataSub[1])
       IN  /\ dataSub' = Some(f.r)
           /\ IF f.err # None
              THEN Fail(Errorf("reading file failed", Len(files), f.err[1])) /\ files' = files
              ELSE files' = Append(files, f.file[1]) /\ pc' = pc /\ UNCHANGED <<err, vol>>
    /\ UNCHANGED <<r, header, bmap, dataSize, rest, out, session>>

\* lines 121-127: after the loop
ReturnVolume ==
    /\ pc = "files"
    /\ ~filesLoop(dataSub[1])
    /\ vol' = Some(Volume(header[1], files, rest))
    /\ err' = None
    /\ pc' = "returned"
    /\ UNCHANGED <<parse, out, session>>

\* Volume.Serialize on the Volume in hand
CallSerialize ==
    /\ pc \in {"returned", "serialized"}
    /\ vol # None
    /\ calls < MaxCalls
    /\ LET s == Serialize(vol[1])
       IN  /\ pc' = IF s.end = "panic" THEN "panicked" ELSE "serialized"
           /\ vol' = Some(s.v)
           /\ out' = s.out
           /\ err' = s.err
    /\ calls' = calls + 1
    /\ UNCHANGED <<parse, prev, edits, rounds>>

\* the consumer's edits between parse and serialize
CanEdit ==
    /\ pc \in {"returned", "serialized"}
    /\ vol # None
    /\ edits < MaxEdits

Edited(v) ==
    /\ vol' = Some(v)
    /\ pc' = "returned"
    /\ edits' = edits + 1
    /\ UNCHANGED <<parse, err, out, prev, calls, rounds>>

RemoveFile ==
    /\ CanEdit
    /\ \E i \in 1..Len(vol[1].Files) :
         Edited([vol[1] EXCEPT !.Files =
                   SubSeq(vol[1].Files, 1, i - 1) \o SubSeq(vol[1].Files, i + 1, Len(vol[1].Files))])

AppendFile ==
    /\ CanEdit
    /\ \E f \in ExtraFiles : Edited([vol[1] EXCEPT !.Files = Append(vol[1].Files, f)])

SetCustom ==
    /\ CanEdit
    /\ \E c \in Customs \ {vol[1].Custom} : Edited([vol[1] EXCEPT !.Custom = c])

\* ReadVolume on the bytes Serialize returned
Reparse ==
    /\ pc = "serialized"
    /\ out # None
    /\ rounds < MaxRounds
    /\ pc' = "header"
    /\ r' = NewNestedReader(out[1])
    /\ header' = None
    /\ bmap' = <<>>
    /\ dataSize' = None
    /\ dataSub' = None
    /\ rest' = <<>>
    /\ files' = <<>>
    /\ prev' = vol
    /\ vol' = None
    /\ err' = None
    /\ rounds' = rounds + 1
    /\ calls' = 0
    /\ UNCHANGED <<out, edits>>

Next ==
    \/ ReadHeader
    \/ BlockmapSize
    \/ ReadEntry
    \/ CheckBlockmap
    \/ CarveData
    \/ ReadFile
    \/ ReturnVolume
    \/ CallSerialize
    \/ RemoveFile
    \/ AppendFile
    \/ SetCustom
    \/ Reparse

Spec == Init /\ [][Next]_vars

(***************************************************************************)
(* Properties.                                                             *)
(***************************************************************************)
HeaderAccepted == header # None /\ check(header[1]) = None

\* ReadVolume has ended without getting past the block map
EndedInBlockmap == pc \in {"returned", "exited", "panicked"} /\ dataSize = None

\* the bytes a record takes in the output: its serialization, then 0xff up
\* to the next multiple of 8
Padded(f) ==
    LET d == FileSerialize(f).data
    IN  d \o [i \in 1..((8 - (Len(d) % 8)) % 8) |-> 255]

PaddedFiles(fs) == [i \in 1..Len(fs) |-> Padded(fs[i])]

\* C1: parsing the output of Serialize of a freshly parsed Volume succeeds
\* and gives the same file records and the same Custom blob; the data size
\* derived from the emitted block map is the number of file bytes emitted.
C1_RoundTrip ==
    (rounds >= 1 /\ edits = 0 /\ prev # None) =>
        /\ dataSize # None =>
             dataSize[1] = ToU32(SumLen(PaddedFiles(prev[1].Files)))
        /\ (pc \in {"returned", "exited", "panicked"} /\ calls = 0) =>
             /\ pc = "returned"
             /\ vol # None
             /\ vol[1].Files = prev[1].Files
             /\ vol[1].Custom = prev[1].Custom

\* C2: the checksum16 of the first 0x48 emitted bytes, taken with the
\* Checksum field (offset 0x32) zeroed, is the emitted Checksum field.
C2_ChecksumSelfConsistent ==
    out # None =>
        LET b == SubSeq(out[1], 1, 72)
            z == [i \in 1..72 |-> IF i \in {51, 52} THEN 0 ELSE b[i]]
        IN  checksum16(z) = U16(SubSeq(b, 51, 52))

\* C2's case: a first Serialize of a Volume parsed with a non-zero Checksum
\* has returned bytes whose Checksum differs from the old one
C2_Witness ==
    /\ pc = "serialized"
    /\ out # None
    /\ calls = 1
    /\ rounds = 0
    /\ header[1].Checksum = 4660
    /\ vol[1].FirmwareVolumeHeader.Checksum # 4660

\* C3: a decoded header with a foreign GUID, a foreign signature or a
\* HeaderLength below 0x40 ends ReadVolume with an error and no Volume
\* (UnsupportedFormat for GUID and signature, MalformedHeader for the
\* length), with no block-map entry read, no data carved, no file parsed.
C3_HeaderRejectedFirst ==
    header # None =>
        LET h       == header[1]
            foreign == h.GUID # VolumeGUID \/ h.Signature # SignatureFVH
        IN  (foreign \/ h.HeaderLength < 64) =>
                /\ pc = "returned"
                /\ vol = None
                /\ err # None
                /\ ErrorClass(err[1]) =
                     (IF foreign THEN "UnsupportedFormat" ELSE "MalformedHeader")
                /\ r.pos = 56
                /\ bmap = <<>>
                /\ dataSize = None
                /\ dataSub = None
                /\ files = <<>>

\* C3's case: HeaderLength 0x30 under the right GUID and signature, rejected
C3_Witness ==
    /\ header # None
    /\ header[1].GUID = VolumeGUID
    /\ header[1].Signature = SignatureFVH
    /\ header[1].HeaderLength = 48
    /\ pc = "returned"
    /\ Len(r.buf) > 72

\* C4: after an accepted header ReadVolume gets past the block map only if
\* HeaderLength - 0x38 is a multiple of 8, there are exactly 2 entries and
\* the last is (0,0); in every other case it returns a block-map error and
\* no Volume, and it never indexes an empty entry list.
C4_BlockmapValidation ==
    HeaderAccepted =>
        /\ (pc = "data" \/ dataSize # None) =>
             /\ (header[1].HeaderLength - 56) % 8 = 0
             /\ (header[1].HeaderLength - 56) \div 8 = 2
             /\ Len(bmap) = 2
             /\ bmap[2] = [BlockCount |-> Zero32, BlockSize |-> Zero32]
        /\ EndedInBlockmap =>
             /\ pc = "returned"
             /\ vol = None
             /\ err # None
             /\ ErrorClass(err[1]) = "MalformedBlockMap"

\* C5: when the input ends before all (HeaderLength - 0x38)/8 entries can be
\* read, ReadVolume returns a MalformedBlockMap error to its caller.
C5_TruncatedBlockmapReturnsError ==
    ( /\ HeaderAccepted
      /\ blockmapSize(header[1]) % 8 = 0
      /\ Len(r.buf) < 56 + 8 * bmapCount(header[1])
      /\ pc \notin {"blockmap", "entries"} ) =>
        /\ pc = "returned"
        /\ vol = None
        /\ err # None
        /\ ErrorClass(err[1]) = "MalformedBlockMap"

\* C6: Serialize of a Volume with no padding record returns an
\* UnsupportedOperation error and no bytes, and leaves Files as they were.
C6_NoPaddingReturnsError ==
    [][ (calls' = calls + 1 /\ ~havePadding(vol[1].Files)) =>
            /\ pc' = "serialized"
            /\ err' # None
            /\ ErrorClass(err'[1]) = "UnsupportedOperation"
            /\ out' = None
            /\ vol'[1].Files = vol[1].Files ]_vars

\* C7: once the file loop is over, a Volume is held only if the data-region
\* cursor stands exactly at its end, with the records in parsing order; a
\* cursor that is not at its end (stray bytes) means an error naming the
\* index of the failing record (the number of records decoded) and no Volume.
C7_FileSequenceExhaustion ==
    (dataSub # None /\ pc # "files") =>
        LET d == dataSub[1]
        IN  /\ (vol # None) => (d.end # Beyond /\ d.pos = d.end)
            /\ (vol # None /\ edits = 0) => vol[1].Files = files
            /\ (d.end = Beyond \/ d.pos # d.end) =>
                 /\ vol = None
                 /\ err # None
                 /\ ErrorClass(err[1]) = "MalformedFile"
            /\ (vol = None /\ pc = "returned") =>
                 /\ err # None
                 /\ err[1].msg = "reading file failed"
                 /\ err[1].index = Len(files)

\* C7's case: one record decoded, then fewer stray bytes than a file header
C7_Witness ==
    /\ pc = "returned"
    /\ dataSub # None
    /\ vol = None
    /\ Len(files) = 1
    /\ err # None
    /\ err[1].index = 1
    /\ dataSub[1].end # Beyond
    /\ dataSub[1].end - dataSub[1].pos \in 1..(FileHeaderSize - 1)

\* C8: the data region is BlockCount * BlockSize - 0x48 bytes right after
\* the block map, Custom is what follows it; on success the four parts
\* account for every input byte; the derived length never exceeds the
\* nominal BlockCount * BlockSize nor the bytes left in the input.
C8_DataRegion ==
    dataSize # None =>
        LET nominal == Mul32(bmap[1].BlockCount, bmap[1].BlockSize)
            left    == Len(r.buf) - 72
        IN  /\ dataSize[1] = Sub32(nominal, ToU32(72))
            /\ (vol # None /\ edits = 0) =>
                 /\ FitsInt(dataSize[1])
                 /\ 56 + 16 + Int32(dataSize[1]) + Len(vol[1].Custom) = Len(r.buf)
                 /\ vol[1].Custom = SubSeq(r.buf, 72 + Int32(dataSize[1]) + 1, Len(r.buf))
            /\ Le32(dataSize[1], nominal)
            /\ Le32(dataSize[1], ToU32(left))

====
